---- MODULE Spec2Model ----
(***************************************************************************)
(* Model of src/components/ChatInterface.tsx: the suggestion rotator (the  *)
(* useEffect on exampleQuestions), the query form (handleSubmit, the       *)
(* suggestion button, the text input) and the line-oriented markdown       *)
(* renderer (renderMarkdown).                                              *)
(*                                                                         *)
(* A JavaScript string is a sequence of one-character strings; the markup  *)
(* literals the code concatenates ("<p ...>", "<br/>", "<li>", ...) are    *)
(* single elements of such a sequence, so string concatenation is \o.      *)
(***************************************************************************)
EXTENDS Integers, Sequences, FiniteSets, TLC

VARIABLES
    exampleQuestions,   \* prop: the suggestion list the view currently holds
    listRef,            \* identity of that list object (a new list is a new reference)
    mounted,            \* the view is active
    currentSuggestion,  \* useState('') of line 22
    timers,             \* the interval timers that are active: intervalId -> closure
    cleanup,            \* intervalId the effect's returned cleanup clears, 0 when none was returned
    ticks,              \* history: timer callbacks run since the effect last ran
    prevTicks,          \* history: the value of ticks when the list was last replaced, -1 before that
    query,              \* useState('') of line 21
    isQueryLoading,     \* prop
    sent,               \* history: the arguments onSendMessage was invoked with, in order
    submitted,          \* history: the last event was a form submission
    text,               \* renderMarkdown: the argument
    lines,              \* renderMarkdown: text.split('\n')
    pos,                \* renderMarkdown: number of lines the for loop has processed
    html,               \* renderMarkdown: html
    listType,           \* renderMarkdown: listType ("ul", "ol" or "null")
    paraBuffer,         \* renderMarkdown: paraBuffer
    pc                  \* renderMarkdown: "start", "loop" or "done"

chatVars == <<exampleQuestions, listRef, mounted, currentSuggestion, timers, cleanup, ticks,
              prevTicks>>
formVars == <<query, isQueryLoading, sent, submitted>>
mdVars == <<text, lines, pos, html, listType, paraBuffer, pc>>
vars == <<chatVars, formVars, mdVars>>

\* ---------------------------------------------------------------- bounds
MaxList == 3      \* longest suggestion list
MaxTicks == 4     \* timer callbacks followed after one run of the effect
MaxQuery == 2     \* longest text typed into the input
MaxSent == 2      \* submissions recorded
MaxLines == 3     \* lines of a rendered text
MaxInline == 4    \* characters of a one-line text in the inline-markup specification

SeqsUpTo(S, n) == UNION {[1..k -> S] : k \in 0..n}

\* ---------------------------------------------------------------- suggestion rotator
Suggestions == {<<"x">>, <<"y">>, <<"z">>}
Lists == SeqsUpTo(Suggestions, MaxList)

\* clearInterval(intervalId)
ClearInterval(ts, id) == [i \in (DOMAIN ts) \ {id} |-> ts[i]]

RunCleanupMissing(ts, c) == ts

\* the cleanup the previous run of the effect returned: () => clearInterval(intervalId),
\* or nothing when that run took the early return
RunCleanup(ts, c) == IF c = 0 THEN ts ELSE ClearInterval(ts, c)

NextIndexClamped(i, n) == IF i + 1 >= n THEN i ELSE i + 1

\* suggestionIndex = (suggestionIndex + 1) % exampleQuestions.length
NextIndex(i, n) == (i + 1) % n

\* setInterval returns a handle no active timer has
NewIntervalId(ts) == CHOOSE id \in 1..(Cardinality(DOMAIN ts) + 1) : id \notin DOMAIN ts

EffectLazyStart(cur, ts, list, ref) ==
    IF Len(list) = 0
    THEN [cur |-> <<>>, timers |-> ts, cleanup |-> 0]
    ELSE LET id == NewIntervalId(ts)
         IN [cur |-> cur,
             timers |-> (id :> [list |-> list, ref |-> ref, suggestionIndex |-> 0]) @@ ts,
             cleanup |-> id]

EffectEmptyKeeps(cur, ts, list, ref) ==
    IF Len(list) = 0
    THEN [cur |-> cur, timers |-> ts, cleanup |-> 0]
    ELSE LET id == NewIntervalId(ts)
         IN [cur |-> list[1],
             timers |-> (id :> [list |-> list, ref |-> ref, suggestionIndex |-> 0]) @@ ts,
             cleanup |-> id]

\* the body of the effect, run with exampleQuestions = list: the state it sets,
\* the timer it starts and the cleanup it returns
Effect(cur, ts, list, ref) ==
    IF Len(list) = 0
    THEN [cur |-> <<>>, timers |-> ts, cleanup |-> 0]
    ELSE LET id == NewIntervalId(ts)
         IN [cur |-> list[1],
             timers |-> (id :> [list |-> list, ref |-> ref, suggestionIndex |-> 0]) @@ ts,
             cleanup |-> id]

\* a new list is supplied: the previous cleanup runs, then the effect runs again
ReplaceList(new) ==
    /\ mounted
    /\ LET e == Effect(currentSuggestion, RunCleanup(timers, cleanup), new, 1 - listRef)
       IN /\ currentSuggestion' = e.cur
          /\ timers' = e.timers
          /\ cleanup' = e.cleanup
    /\ exampleQuestions' = new
    /\ listRef' = 1 - listRef
    /\ ticks' = 0
    /\ prevTicks' = ticks
    /\ submitted' = FALSE
    /\ UNCHANGED <<mounted, query, isQueryLoading, sent, mdVars>>

\* the interval callback of the timer id
Tick(id) ==
    /\ id \in DOMAIN timers
    /\ ticks < MaxTicks
    /\ LET c == timers[id]
           i == NextIndex(c.suggestionIndex, Len(c.list))
       IN /\ timers' = [timers EXCEPT ![id].suggestionIndex = i]
          /\ currentSuggestion' = c.list[i + 1]
    /\ ticks' = ticks + 1
    /\ submitted' = FALSE
    /\ UNCHANGED <<exampleQuestions, listRef, mounted, cleanup, prevTicks, query, isQueryLoading,
                   sent, mdVars>>

\* the view is disposed: the cleanup of the last run of the effect runs
Unmount ==
    /\ mounted
    /\ mounted' = FALSE
    /\ timers' = RunCleanup(timers, cleanup)
    /\ cleanup' = 0
    /\ submitted' = FALSE
    /\ UNCHANGED <<exampleQuestions, listRef, currentSuggestion, ticks, prevTicks, query,
                   isQueryLoading, sent, mdVars>>

\* ---------------------------------------------------------------- query form
QueryChars == {"a", " "}
QueryValues == SeqsUpTo(QueryChars, MaxQuery)

IsWhiteSpace(c) == c = " "

RECURSIVE TrimStart(_)
TrimStart(s) == IF s # <<>> /\ IsWhiteSpace(Head(s)) THEN TrimStart(Tail(s)) ELSE s

RECURSIVE TrimEnd(_)
TrimEnd(s) ==
    IF s # <<>> /\ IsWhiteSpace(s[Len(s)]) THEN TrimEnd(SubSeq(s, 1, Len(s) - 1)) ELSE s

\* String.prototype.trim
Trim(s) == TrimEnd(TrimStart(s))

CanSubmitUntrimmed(q) == q # <<>>

\* the condition of handleSubmit: query.trim() is truthy
CanSubmit(q) == Trim(q) # <<>>

\* onChange of the input: setQuery(e.target.value)
Type(v) ==
    /\ mounted
    /\ ~isQueryLoading
    /\ query' = v
    /\ submitted' = FALSE
    /\ UNCHANGED <<chatVars, isQueryLoading, sent, mdVars>>

\* onClick of the suggestion button, rendered when !isQueryLoading && currentSuggestion
ClickSuggestion ==
    /\ mounted
    /\ ~isQueryLoading
    /\ currentSuggestion # <<>>
    /\ query' = currentSuggestion
    /\ submitted' = FALSE
    /\ UNCHANGED <<chatVars, isQueryLoading, sent, mdVars>>

\* handleSubmit
Submit ==
    /\ mounted
    /\ Len(sent) < MaxSent
    /\ submitted' = TRUE
    /\ IF CanSubmit(query)
       THEN /\ sent' = Append(sent, query)
            /\ query' = <<>>
       ELSE UNCHANGED <<sent, query>>
    /\ UNCHANGED <<chatVars, isQueryLoading, mdVars>>

\* the owner of the view changes the isQueryLoading prop
SetLoading(b) ==
    /\ mounted
    /\ isQueryLoading # b
    /\ isQueryLoading' = b
    /\ submitted' = FALSE
    /\ UNCHANGED <<chatVars, query, sent, mdVars>>

\* ---------------------------------------------------------------- markdown renderer
\* the markup literals of renderMarkdown
STRONG_OPEN == "<strong>"
STRONG_CLOSE == "</strong>"
EM_OPEN == "<em>"
EM_CLOSE == "</em>"
CODE_OPEN == "<code class=\"bg-gem-mist/50 px-1 py-0.5 rounded-sm font-mono text-sm\">"
CODE_CLOSE == "</code>"
P_OPEN == "<p class=\"my-2\">"
P_CLOSE == "</p>"
BR == "<br/>"
OL_OPEN == "<ol class=\"list-decimal list-inside my-2 pl-5 space-y-1\">"
UL_OPEN == "<ul class=\"list-disc list-inside my-2 pl-5 space-y-1\">"
OL_CLOSE == "</ol>"
UL_CLOSE == "</ul>"
LI_OPEN == "<li>"
LI_CLOSE == "</li>"

\* the grave accent character (a string literal of this language cannot hold it)
BACKTICK == "GRAVE"

IsDigit(c) == c \in {"0", "1", "2", "3", "4", "5", "6", "7", "8", "9"}

Min(S) == CHOOSE x \in S : \A y \in S : x <= y

\* the k characters of s from position i are all the character d
HasDelim(s, i, d, k) == i + k - 1 <= Len(s) /\ \A m \in 0..(k - 1) : s[i + m] = d

\* d{k}(.*?)d{k} tried at position i: the position of the closing delimiter the lazy
\* group stops at (the first one after the opening delimiter), 0 when there is no match
LazyClose(s, i, d, k) ==
    IF ~HasDelim(s, i, d, k)
    THEN 0
    ELSE LET J == {j \in (i + k)..Len(s) : HasDelim(s, j, d, k)}
         IN IF J = {} THEN 0 ELSE Min(J)

\* s.replace(/X(.*?)X|Y(.*?)Y/g, open $1$2 close) from position i on, where X is k
\* asterisks and Y is k underscores: leftmost match first, then on from its end
RECURSIVE ReplaceDelimited(_, _, _, _, _)
ReplaceDelimited(s, i, k, open, close) ==
    IF i > Len(s)
    THEN <<>>
    ELSE LET j1 == LazyClose(s, i, "*", k)
             j2 == LazyClose(s, i, "_", k)
             j == IF j1 # 0 THEN j1 ELSE j2
         IN IF j # 0
            THEN <<open>> \o SubSeq(s, i + k, j - 1) \o <<close>>
                     \o ReplaceDelimited(s, j + k, k, open, close)
            ELSE <<s[i]>> \o ReplaceDelimited(s, i + 1, k, open, close)

\* s.replace(code span pattern, <code>$1</code>) from position i on, where the pattern is
\* a backtick, one or more characters that are no backtick (greedy), a backtick
RECURSIVE ReplaceCode(_, _)
ReplaceCode(s, i) ==
    IF i > Len(s)
    THEN <<>>
    ELSE LET J == {j \in (i + 1)..Len(s) : s[j] = BACKTICK}
             j == IF s[i] = BACKTICK /\ J # {} /\ Min(J) >= i + 2 THEN Min(J) ELSE 0
         IN IF j # 0
            THEN <<CODE_OPEN>> \o SubSeq(s, i + 1, j - 1) \o <<CODE_CLOSE>> \o ReplaceCode(s, j + 1)
            ELSE <<s[i]>> \o ReplaceCode(s, i + 1)

\* const line = rawLine.replace(bold).replace(emphasis).replace(code)
InlineSubstitutions(rawLine) ==
    ReplaceCode(
        ReplaceDelimited(
            ReplaceDelimited(rawLine, 1, 2, STRONG_OPEN, STRONG_CLOSE),
            1, 1, EM_OPEN, EM_CLOSE),
        1)

\* the number of leading white space characters of s
RECURSIVE LeadingSpace(_)
LeadingSpace(s) ==
    IF s # <<>> /\ IsWhiteSpace(Head(s)) THEN 1 + LeadingSpace(Tail(s)) ELSE 0

RECURSIVE LeadingDigits(_)
LeadingDigits(s) ==
    IF s # <<>> /\ IsDigit(Head(s)) THEN 1 + LeadingDigits(Tail(s)) ELSE 0

\* line.match(/^\s*\d+\.\s(.*)/): whether it matches, and group 1
OlMatch(line) ==
    LET w == LeadingSpace(line)
        d == LeadingDigits(SubSeq(line, w + 1, Len(line)))
        n == w + d
    IN IF d >= 1 /\ n + 2 <= Len(line) /\ line[n + 1] = "." /\ IsWhiteSpace(line[n + 2])
       THEN [ok |-> TRUE, item |-> SubSeq(line, n + 3, Len(line))]
       ELSE [ok |-> FALSE, item |-> <<>>]

\* line.match(/^\s*[\*\-]\s(.*)/): whether it matches, and group 1
UlMatch(line) ==
    LET w == LeadingSpace(line)
    IN IF w + 2 <= Len(line) /\ line[w + 1] \in {"*", "-"} /\ IsWhiteSpace(line[w + 2])
       THEN [ok |-> TRUE, item |-> SubSeq(line, w + 3, Len(line))]
       ELSE [ok |-> FALSE, item |-> <<>>]

\* text.split on the line feed character
RECURSIVE Split(_)
Split(t) ==
    LET N == {i \in 1..Len(t) : t[i] = "\n"}
    IN IF N = {}
       THEN <<t>>
       ELSE <<SubSeq(t, 1, Min(N) - 1)>> \o Split(SubSeq(t, Min(N) + 1, Len(t)))

\* the three locals of renderMarkdown the loop updates
RenderState(h, lt, pb) == [html |-> h, listType |-> lt, paraBuffer |-> pb]

FlushParaKeepsBuffer(st) ==
    IF st.paraBuffer # <<>>
    THEN RenderState(st.html \o <<P_OPEN>> \o st.paraBuffer \o <<P_CLOSE>>, st.listType,
                     st.paraBuffer)
    ELSE st

\* flushPara
FlushPara(st) ==
    IF st.paraBuffer # <<>>
    THEN RenderState(st.html \o <<P_OPEN>> \o st.paraBuffer \o <<P_CLOSE>>, st.listType, <<>>)
    ELSE st

\* flushList
FlushList(st) ==
    IF st.listType # "null"
    THEN RenderState(st.html \o <<(IF st.listType = "ol" THEN OL_CLOSE ELSE UL_CLOSE)>>, "null",
                     st.paraBuffer)
    ELSE st

OpenListNoClose(st, kind) ==
    IF st.listType # kind
    THEN RenderState(st.html \o <<(IF kind = "ol" THEN OL_OPEN ELSE UL_OPEN)>>, kind,
                     st.paraBuffer)
    ELSE st

\* if (listType !== kind) { flushList(); html += '<kind ...>'; listType = kind; }
OpenList(st, kind) ==
    IF st.listType # kind
    THEN LET f == FlushList(st)
         IN RenderState(f.html \o <<(IF kind = "ol" THEN OL_OPEN ELSE UL_OPEN)>>, kind,
                        f.paraBuffer)
    ELSE st

\* html += `<li>${item}</li>`
AddItem(st, item) ==
    RenderState(st.html \o <<LI_OPEN>> \o item \o <<LI_CLOSE>>, st.listType, st.paraBuffer)

PlainLineKeepsList(st, line) ==
    IF Trim(line) = <<>>
    THEN FlushPara(st)
    ELSE RenderState(st.html, st.listType,
                     st.paraBuffer \o (IF st.paraBuffer # <<>> THEN <<BR>> ELSE <<>>) \o line)

\* the else branch of the loop body: a line that is no list item
PlainLine(st, line) ==
    LET f == FlushList(st)
    IN IF Trim(line) = <<>>
       THEN FlushPara(f)
       ELSE RenderState(f.html, f.listType,
                        f.paraBuffer \o (IF f.paraBuffer # <<>> THEN <<BR>> ELSE <<>>) \o line)

\* the body of the for loop, for one rawLine
LoopBody(st, rawLine) ==
    LET line == InlineSubstitutions(rawLine)
        isOl == OlMatch(line)
        isUl == UlMatch(line)
    IN IF isOl.ok
       THEN AddItem(OpenList(FlushPara(st), "ol"), isOl.item)
       ELSE IF isUl.ok
            THEN AddItem(OpenList(FlushPara(st), "ul"), isUl.item)
            ELSE PlainLine(st, line)

\* renderMarkdown up to the loop: the early return on an empty text, the split and
\* the initial values of the locals
RenderStart ==
    /\ pc = "start"
    /\ IF text = <<>>
       THEN /\ pc' = "done"
            /\ UNCHANGED lines
       ELSE /\ pc' = "loop"
            /\ lines' = Split(text)
    /\ pos' = 0
    /\ html' = <<>>
    /\ listType' = "null"
    /\ paraBuffer' = <<>>
    /\ UNCHANGED <<text, chatVars, formVars>>

\* one iteration of for (const rawLine of lines)
ProcessLine ==
    /\ pc = "loop"
    /\ pos < Len(lines)
    /\ LET st == LoopBody(RenderState(html, listType, paraBuffer), lines[pos + 1])
       IN /\ html' = st.html
          /\ listType' = st.listType
          /\ paraBuffer' = st.paraBuffer
    /\ pos' = pos + 1
    /\ UNCHANGED <<text, lines, pc, chatVars, formVars>>

\* after the loop: flushPara(); flushList(); return { __html: html }
Finish ==
    /\ pc = "loop"
    /\ pos = Len(lines)
    /\ LET st == FlushList(FlushPara(RenderState(html, listType, paraBuffer)))
       IN /\ html' = st.html
          /\ listType' = st.listType
          /\ paraBuffer' = st.paraBuffer
    /\ pc' = "done"
    /\ UNCHANGED <<text, lines, pos, chatVars, formVars>>

\* ---------------------------------------------------------------- specifications
MdIdle ==
    /\ text = <<>>
    /\ lines = <<>>
    /\ pos = 0
    /\ html = <<>>
    /\ listType = "null"
    /\ paraBuffer = <<>>
    /\ pc = "done"

FormIdle ==
    /\ query = <<>>
    /\ isQueryLoading = FALSE
    /\ sent = <<>>
    /\ submitted = FALSE

\* the view after it is mounted with the list l
Mounted(l) ==
    /\ exampleQuestions = l
    /\ listRef = 0
    /\ mounted = TRUE
    /\ LET e == Effect(<<>>, <<>>, l, 0)
       IN /\ currentSuggestion = e.cur
          /\ timers = e.timers
          /\ cleanup = e.cleanup
    /\ ticks = 0
    /\ prevTicks = -1

Init == (\E l \in Lists : Mounted(l)) /\ FormIdle /\ MdIdle

Next ==
    \/ \E new \in Lists : ReplaceList(new)
    \/ \E id \in DOMAIN timers : Tick(id)
    \/ Unmount

Spec == Init /\ [][Next]_vars

\* the form, over a list that holds a plain, a whitespace-only and an empty suggestion
FormList == << <<"x">>, <<" ">>, <<>> >>

InitForm == Mounted(FormList) /\ FormIdle /\ MdIdle

NextForm ==
    \/ \E v \in QueryValues : Type(v)
    \/ ClickSuggestion
    \/ Submit
    \/ \E b \in BOOLEAN : SetLoading(b)
    \/ \E id \in DOMAIN timers : Tick(id)

SpecForm == InitForm /\ [][NextForm]_vars
ChatIdle ==
    /\ exampleQuestions = <<>>
    /\ listRef = 0
    /\ mounted = TRUE
    /\ currentSuggestion = <<>>
    /\ timers = <<>>
    /\ cleanup = 0
    /\ ticks = 0
    /\ prevTicks = -1

\* renderMarkdown is about to be called with t
Called(t) ==
    /\ text = t
    /\ lines = <<>>
    /\ pos = 0
    /\ html = <<>>
    /\ listType = "null"
    /\ paraBuffer = <<>>
    /\ pc = "start"

RECURSIVE JoinLines(_)
JoinLines(ls) ==
    IF ls = <<>> THEN <<>>
    ELSE IF Len(ls) = 1 THEN ls[1]
    ELSE ls[1] \o <<"\n">> \o JoinLines(Tail(ls))

\* the lines of the rendered texts: an optional list marker, then a body; and a line
\* of white space
MdPrefixes == {<<>>, <<"*", " ">>, <<"-", " ">>, <<"1", ".", " ">>}
MdBodies == {<<>>, <<"a">>, <<"*">>}
MdLines == {p \o b : p \in MdPrefixes, b \in MdBodies} \cup {<<" ">>}
MdTexts == {JoinLines(ls) : ls \in SeqsUpTo(MdLines, MaxLines)}

NextMd == RenderStart \/ ProcessLine \/ Finish

InitMd == (\E t \in MdTexts : Called(t)) /\ ChatIdle /\ FormIdle

SpecMd == InitMd /\ [][NextMd]_vars

\* one-line texts over the characters the inline patterns and the line patterns read
InlineChars == {"a", "*", "_", BACKTICK, " ", "-", "1", "."}
InlineTexts == SeqsUpTo(InlineChars, MaxInline)

InitInline == (\E t \in InlineTexts : Called(t)) /\ ChatIdle /\ FormIdle

SpecInline == InitInline /\ [][NextMd]_vars

\* ---------------------------------------------------------------- claims: rotator
\* C1: while the view is mounted with a non-empty list of length n, the current
\* suggestion is list[0] before any tick and list[k mod n] after the k-th tick that
\* follows the last run of the effect (sequences are 1-based here).
C1_RotationFollowsTicks ==
    (mounted /\ exampleQuestions # <<>>) =>
        currentSuggestion = exampleQuestions[(ticks % Len(exampleQuestions)) + 1]

\* three ticks over [x, y, z] have wrapped around to x
C1_Witness ==
    /\ mounted
    /\ exampleQuestions = << <<"x">>, <<"y">>, <<"z">> >>
    /\ ticks = 3
    /\ currentSuggestion = <<"x">>

\* C2: at most one interval timer is active, it belongs to the list the view holds,
\* none is active after disposal, and no step changes the current suggestion once
\* the view is disposed.
C2_SingleTimer ==
    /\ [](/\ Cardinality(DOMAIN timers) <= 1
          /\ \A id \in DOMAIN timers : timers[id].ref = listRef
          /\ ~mounted => DOMAIN timers = {})
    /\ [][~mounted => currentSuggestion' = currentSuggestion]_vars

\* a list was replaced mid-rotation, the new one ticked, and the view was disposed
C2_Witness == ~mounted /\ prevTicks >= 1 /\ ticks >= 1 /\ DOMAIN timers = {}

\* C3: a step that replaces the list by a non-empty one sets the current suggestion
\* to the new list's first element and leaves exactly the timers of the new list, at
\* index 0; every later tick yields the new list's element at the number of ticks
\* since the replacement, modulo its length.
C3_ReplaceRestarts ==
    [][/\ (listRef' # listRef /\ exampleQuestions' # <<>>) =>
            /\ currentSuggestion' = exampleQuestions'[1]
            /\ DOMAIN timers' # {}
            /\ \A id \in DOMAIN timers' :
                   /\ timers'[id].ref = listRef'
                   /\ timers'[id].list = exampleQuestions'
                   /\ timers'[id].suggestionIndex = 0
       /\ (ticks' = ticks + 1) =>
            /\ exampleQuestions' = exampleQuestions
            /\ currentSuggestion' = exampleQuestions[(ticks' % Len(exampleQuestions)) + 1]
      ]_vars

\* a list that had ticked was replaced, and the new list has ticked twice
C3_Witness ==
    /\ mounted
    /\ prevTicks >= 1
    /\ ticks = 2
    /\ Len(exampleQuestions) = 3
    /\ currentSuggestion = exampleQuestions[3]

\* C4: while the list is empty the current suggestion is the empty string and no
\* timer is active (so no tick can change it), also after a non-empty list was
\* replaced by an empty one.
C4_EmptyListIdle ==
    exampleQuestions = <<>> => (currentSuggestion = <<>> /\ DOMAIN timers = {})

\* a list that had ticked (so a non-empty one) was replaced by the empty list
C4_Witness == mounted /\ exampleQuestions = <<>> /\ prevTicks >= 1

\* ---------------------------------------------------------------- claims: form
Blank(q) == \A i \in 1..Len(q) : q[i] = " "

\* C7: a submission of a blank (empty or whitespace-only) query invokes no callback
\* and leaves the query; a submission of any other query invokes the callback once
\* with the query and empties the query; the callback never receives a blank query.
C7_SubmitRejectsBlank ==
    /\ [](\A i \in 1..Len(sent) : ~Blank(sent[i]))
    /\ [][/\ submitted' =>
               IF Blank(query)
               THEN sent' = sent /\ query' = query
               ELSE sent' = Append(sent, query) /\ query' = <<>>
          /\ ~submitted' => sent' = sent
         ]_vars

\* after one accepted submission the whitespace-only suggestion was clicked and its
\* submission rejected
C7_Witness == submitted /\ query = <<" ">> /\ Len(sent) = 1
\* ---------------------------------------------------------------- claims: renderer
Max(S) == CHOOSE x \in S : \A y \in S : x >= y

\* the class the renderer gives a line: the line patterns are applied to the line
\* after the inline substitutions
KindOf(rawLine) ==
    LET line == InlineSubstitutions(rawLine)
    IN IF OlMatch(line).ok THEN "ol"
       ELSE IF UlMatch(line).ok THEN "ul"
       ELSE IF \A i \in 1..Len(line) : line[i] = " " THEN "blank"
       ELSE "plain"

\* what a line contributes: the text after the marker of a list item, else the line
ContentOf(rawLine) ==
    LET line == InlineSubstitutions(rawLine)
    IN IF OlMatch(line).ok THEN OlMatch(line).item
       ELSE IF UlMatch(line).ok THEN UlMatch(line).item
       ELSE line

\* the line i of ls starts a maximal run of lines of one class
RunStart(ls, i) == i = 1 \/ KindOf(ls[i - 1]) # KindOf(ls[i])

\* the last line of the maximal run that holds line i
RunEnd(ls, i) ==
    Max({j \in i..Len(ls) : \A m \in i..j : KindOf(ls[m]) = KindOf(ls[i])})

RECURSIVE JoinBreaks(_, _, _)
JoinBreaks(ls, i, j) ==
    IF i > j THEN <<>>
    ELSE IF i = j THEN ContentOf(ls[i])
    ELSE ContentOf(ls[i]) \o <<BR>> \o JoinBreaks(ls, i + 1, j)

RECURSIVE Entries(_, _, _)
Entries(ls, i, j) ==
    IF i > j THEN <<>>
    ELSE <<LI_OPEN>> \o ContentOf(ls[i]) \o <<LI_CLOSE>> \o Entries(ls, i + 1, j)

\* the block a maximal run from line i to line j is to yield
BlockOf(ls, i, j) ==
    CASE KindOf(ls[i]) = "plain" -> <<P_OPEN>> \o JoinBreaks(ls, i, j) \o <<P_CLOSE>>
      [] KindOf(ls[i]) = "ol" -> <<OL_OPEN>> \o Entries(ls, i, j) \o <<OL_CLOSE>>
      [] KindOf(ls[i]) = "ul" -> <<UL_OPEN>> \o Entries(ls, i, j) \o <<UL_CLOSE>>
      [] OTHER -> <<>>

\* the blocks of the maximal runs of the classes in kinds, from line i on, in line order
RECURSIVE BlocksFrom(_, _, _)
BlocksFrom(ls, i, kinds) ==
    IF i > Len(ls) THEN <<>>
    ELSE (IF RunStart(ls, i) /\ KindOf(ls[i]) \in kinds
          THEN BlockOf(ls, i, RunEnd(ls, i))
          ELSE <<>>) \o BlocksFrom(ls, i + 1, kinds)

\* h without the spans that start at a token of opens and end at the next token of closes
RECURSIVE Without(_, _, _, _)
Without(h, opens, closes, inside) ==
    IF h = <<>> THEN <<>>
    ELSE IF inside
         THEN Without(Tail(h), opens, closes, Head(h) \notin closes)
         ELSE IF Head(h) \in opens
              THEN Without(Tail(h), opens, closes, TRUE)
              ELSE <<Head(h)>> \o Without(Tail(h), opens, closes, FALSE)

ParagraphPart(h) == Without(h, {OL_OPEN, UL_OPEN}, {OL_CLOSE, UL_CLOSE}, FALSE)
ListPart(h) == Without(h, {P_OPEN}, {P_CLOSE}, FALSE)

\* C5: in the result, the paragraph markup is exactly one paragraph block per maximal
\* run of consecutive plain non-empty lines (plain as the renderer classifies the
\* line), in input order, each holding the run's lines joined by the line-break
\* marker; a blank line ends a run and emits nothing.
C5_ParagraphRuns ==
    pc = "done" => ParagraphPart(html) = BlocksFrom(lines, 1, {"plain"})

\* a run of two plain lines, joined by the line-break marker in one block, then a
\* blank line that emits nothing
C5_Witness ==
    /\ pc = "done"
    /\ Len(lines) = 3
    /\ KindOf(lines[1]) = "plain"
    /\ KindOf(lines[2]) = "plain"
    /\ KindOf(lines[3]) = "blank"
    /\ lines[1] # lines[2]
    /\ html = <<P_OPEN>> \o lines[1] \o <<BR>> \o lines[2] \o <<P_CLOSE>>

\* C6: in the result, the list markup is exactly one list block per maximal run of
\* consecutive list-item lines of one kind (as the renderer classifies the line),
\* in input order: opened once, one entry per line, closed once with the tag of its
\* kind; so a change of kind closes and reopens, and no list stays open.
C6_ListRuns ==
    pc = "done" => ListPart(html) = BlocksFrom(lines, 1, {"ol", "ul"})

\* an unordered run of two lines (one marker each) directly followed by an ordered line
C6_Witness ==
    /\ pc = "done"
    /\ lines = << <<"*", " ", "a">>, <<"-", " ">>, <<"1", ".", " ", "a">> >>
    /\ html = <<UL_OPEN, LI_OPEN, "a", LI_CLOSE, LI_OPEN, LI_CLOSE, UL_CLOSE,
                OL_OPEN, LI_OPEN, "a", LI_CLOSE, OL_CLOSE>>

\* the content of h, one element per line: a new element starts after a paragraph
\* start, a line break or an entry start; the other markup of the blocks is dropped
RECURSIVE Chunks(_)
Chunks(h) ==
    IF h = <<>> THEN <<>>
    ELSE LET r == Chunks(SubSeq(h, 1, Len(h) - 1))
             x == h[Len(h)]
         IN IF x \in {P_OPEN, BR, LI_OPEN} THEN Append(r, <<>>)
            ELSE IF x \in {P_CLOSE, LI_CLOSE, OL_OPEN, UL_OPEN, OL_CLOSE, UL_CLOSE} THEN r
            ELSE IF r = <<>> THEN <<<<x>>>>
            ELSE [r EXCEPT ![Len(r)] = Append(@, x)]

\* the contents of the first n lines that are not blank, in line order
RECURSIVE ContentsUpTo(_, _)
ContentsUpTo(ls, n) ==
    IF n = 0 THEN <<>>
    ELSE ContentsUpTo(ls, n - 1)
             \o (IF KindOf(ls[n]) = "blank" THEN <<>> ELSE <<ContentOf(ls[n])>>)

\* C10: after each line, an open list and a non-empty paragraph buffer do not
\* coexist, and what was emitted, followed by the pending paragraph buffer, holds the
\* contents of the lines processed so far in input line order; so does the result.
C10_ScanInvariant ==
    pc \in {"loop", "done"} =>
        /\ ~(listType # "null" /\ paraBuffer # <<>>)
        /\ Chunks(html \o (IF paraBuffer # <<>> THEN <<P_OPEN>> \o paraBuffer ELSE <<>>))
               = ContentsUpTo(lines, pos)

\* a paragraph, then a list, then a paragraph again, each with its own content
C10_Witness ==
    /\ pc = "done"
    /\ Len(lines) = 3
    /\ KindOf(lines[1]) = "plain"
    /\ KindOf(lines[2]) = "ol"
    /\ KindOf(lines[3]) = "plain"
    /\ lines[1] # lines[3]
    /\ Chunks(html) = <<lines[1], <<"*">>, lines[3]>>

\* ---------------------------------------------------------------- claims: inline markup
IsMarker(c) == c \in {"*", "_", BACKTICK}

\* the markers of the line are one unmatched marker: a single asterisk, underscore or
\* grave accent, or one pair of adjacent asterisks or of adjacent underscores
LoneMarker(s) ==
    LET M == {i \in 1..Len(s) : IsMarker(s[i])}
    IN \/ Cardinality(M) = 1
       \/ \E i \in M : M = {i, i + 1} /\ s[i] = s[i + 1] /\ s[i] \in {"*", "_"}

\* C8: a line whose only markers are one unmatched marker passes the inline
\* substitutions unchanged (no markup is inserted, no marker is lost).
C8_UnmatchedPassesThrough ==
    (pc = "done" /\ text # <<>> /\ LoneMarker(lines[1])) =>
        InlineSubstitutions(lines[1]) = lines[1]

\* C9: a line that starts (after optional white space) with an asterisk or a hyphen
\* and a space is rendered as an unordered-list entry, one that starts with digits, a
\* period and a space as an ordered-list entry, whatever follows; every other line
\* that is not blank is rendered as paragraph text.
C9_ClassifiedByItsStart ==
    (pc = "done" /\ text # <<>>) =>
        LET rawLine == lines[1]
        IN IF UlMatch(rawLine).ok THEN Head(html) = UL_OPEN
           ELSE IF OlMatch(rawLine).ok THEN Head(html) = OL_OPEN
           ELSE IF Trim(rawLine) # <<>> THEN Head(html) = P_OPEN
           ELSE html = <<>>
====
